---- MODULE Spec2Model ----
(***************************************************************************)
(* CoreDocumentParser0 (daemon/core/xml/xmlparser0.py): the builder that   *)
(* turns a parsed scenario document into session objects.                  *)
(*                                                                         *)
(* The input document is chosen in Init; the constructor's passes then run *)
(* over it one element at a time.  `trace` is the history of the build, in *)
(* program order: every call the parser makes on a collaborator (session,  *)
(* entities, managers, logger), every entry of parsemodel, and every write *)
(* and read of the link-parameter table.                                   *)
(***************************************************************************)
EXTENDS Integers, Sequences, FiniteSets, TLC

VARIABLES doc, pc, idx, err, coords, linkparams, linkednets, objects, links,
          netifs, defaultservices, svclists, assoc, trace

vars == <<doc, pc, idx, err, coords, linkparams, linkednets, objects, links,
          netifs, defaultservices, svclists, assoc, trace>>

(***************************************************************************)
(* Bounds of the input documents.                                          *)
(***************************************************************************)
MaxIfcs == 2
MaxKvs == 2
MaxSvcs == 2
MaxMotions == 2

SeqUpTo(S, n) == UNION {[1..k -> S] : k \in 0..n}

Range(s) == {s[i] : i \in 1..Len(s)}

Injective(s) == \A i, j \in 1..Len(s) : s[i] = s[j] => i = j

(***************************************************************************)
(* Text.  Attribute values the parser converts or slices are sequences of  *)
(* one-character strings; names that are only compared are plain strings.  *)
(***************************************************************************)
Digits == <<"0", "1", "2", "3", "4", "5", "6", "7", "8", "9">>

IsDigit(c) == \E d \in 1..10 : Digits[d] = c

DigitVal(c) == (CHOOSE d \in 1..10 : Digits[d] = c) - 1

AllDigits(s) == \A i \in 1..Len(s) : IsDigit(s[i])

RECURSIVE NatOf(_)
NatOf(s) == IF s = <<>> THEN 0
            ELSE NatOf(SubSeq(s, 1, Len(s) - 1)) * 10 + DigitVal(s[Len(s)])

RECURSIVE Pow10(_)
Pow10(n) == IF n = 0 THEN 1 ELSE 10 * Pow10(n - 1)

HasSign(s) == Len(s) > 0 /\ s[1] \in {"-", "+"}

Unsigned(s) == IF HasSign(s) THEN SubSeq(s, 2, Len(s)) ELSE s

Signed(s, n) == IF HasSign(s) /\ s[1] = "-" THEN 0 - n ELSE n

\* Values carried by (key, value) pairs: the text of an element, or the
\* number a conversion made of it (m / 10^e, e = 0 for an int).
StrVal(s) == [t |-> "str", m |-> 0, e |-> 0, s |-> s]
IntVal(n) == [t |-> "int", m |-> n, e |-> 0, s |-> <<>>]

RECURSIVE FloatVal(_, _)
FloatVal(m, e) == IF e > 0 /\ m % 10 = 0 THEN FloatVal(m \div 10, e - 1)
                  ELSE [t |-> "float", m |-> m, e |-> e, s |-> <<>>]

\* int(text): an optional sign and at least one digit, nothing else.
PyIntOf(s, body) ==
    IF Len(body) > 0 /\ AllDigits(body)
    THEN [ok |-> TRUE, v |-> IntVal(Signed(s, NatOf(body)))]
    ELSE [ok |-> FALSE, v |-> StrVal(s)]

PyInt(s) == PyIntOf(s, Unsigned(s))

\* float(text) for a text that holds a '.': digits around exactly one point.
PyFloatOf(s, ip, fp) ==
    IF AllDigits(ip) /\ AllDigits(fp) /\ Len(ip) + Len(fp) > 0
    THEN [ok |-> TRUE,
          v  |-> FloatVal(Signed(s, NatOf(ip) * Pow10(Len(fp)) + NatOf(fp)), Len(fp))]
    ELSE [ok |-> FALSE, v |-> StrVal(s)]

PyFloatAt(s, body, p) == PyFloatOf(s, SubSeq(body, 1, p - 1), SubSeq(body, p + 1, Len(body)))

HasDot(s) == \E i \in 1..Len(s) : s[i] = "."

PyFloat(s) ==
    IF Cardinality({i \in 1..Len(s) : s[i] = "."}) = 1
    THEN PyFloatAt(s, Unsigned(s), CHOOSE i \in 1..Len(Unsigned(s)) : Unsigned(s)[i] = ".")
    ELSE [ok |-> FALSE, v |-> StrVal(s)]

(***************************************************************************)
(* The documents.                                                          *)
(***************************************************************************)
T_emane == <<"e", "m", "a", "n", "e", "_", "r", "f">>
T_Emane == <<"E", "m", "a", "n", "e">>
T_netem == <<"n", "e", "t", "e", "m">>
T_xen   == <<"x", "e", "n", "v", "m">>
T_basic == <<"b", "a", "s", "i", "c">>
T_xe    == <<"x", "e">>

ModelNames == {<<>>, T_emane, T_Emane, T_netem, T_xen, T_basic, T_xe}

\* The (key, value) children of link-tuning models: xmlutils hands them to the
\* parser as pairs of a key and the element's text.
KVPool == {<<"delay", StrVal(<<"5", "0">>)>>, <<"loss", StrVal(<<"1", ".", "2">>)>>,
           <<"delay", StrVal(<<"a", "b", "c">>)>>}

NetNames == {"sw1", "sw2"}
AllNetNames == {"sw1", "sw2", "sw3"}
NodeNames == {"n1", "n2"}
Ghost == "ghost"

\* The id attribute of each element, as written in the document.
IdText(name) == CASE name = "sw1" -> <<"1">>
                  [] name = "sw2" -> <<"2">>
                  [] name = "sw3" -> <<"3">>
                  [] name = "n1"  -> <<"1", "0">>
                  [] name = "n2"  -> <<"9">>

Model(name, peer, netif, kvs) ==
    [name |-> name, peer |-> peer, netif |-> netif, kvs |-> kvs]

NetElem(name, type, ifcs, models) ==
    [id |-> IdText(name), name |-> name, type |-> type, ifcs |-> ifcs, models |-> models]

NodeElem(name, type, ifcs) ==
    [id |-> IdText(name), name |-> name, type |-> type, ifcs |-> ifcs]

Ifc(name, net, models) == [name |-> name, net |-> net, models |-> models]

SvcEntry(name, type, services) == [name |-> name, type |-> type, services |-> services]

NetIfc(name, net) == [name |-> name, net |-> net]

MotionNode(name, motions) == [name |-> name, motions |-> motions]

Motion(type, point) == [type |-> type, point |-> point]

\* A <point> child: absent, without text, or with text.
NoPoint == [kind |-> "nopoint", txt |-> <<>>]
EmptyPoint == [kind |-> "empty", txt |-> <<>>]
Point(txt) == [kind |-> "text", txt |-> txt]

NoOrigin == [present |-> FALSE, lat |-> <<>>, lon |-> <<>>, alt |-> <<>>]
Origin(lat, lon, alt) == [present |-> TRUE, lat |-> lat, lon |-> lon, alt |-> alt]

Svc(name, custom) == [name |-> name, custom |-> custom]

Kv50 == <<<<"delay", StrVal(<<"5", "0">>)>>>>
Kv7  == <<<<"jitter", StrVal(<<"7">>)>>>>

BaseNets == <<NetElem("sw1", "lanswitch", <<>>, <<>>)>>
BaseNodes == <<NodeElem("n1", "router", <<Ifc("eth0", "sw1", <<>>)>>)>>
BaseSplan == <<SvcEntry("", "router", <<Svc("zebra", "")>>),
               SvcEntry("n1", "", <<Svc("zebra", "True")>>)>>
BaseMotion == <<MotionNode("n1", <<Motion("stationary", Point(<<"3", ",", "4">>))>>)>>

MetaParts == {"SessionOptions", "Hooks", "MetaData"}

Doc(np, mp, sp, meta, nets, nodes, splan, motion, origin, metaparts) ==
    [np |-> np, mp |-> mp, sp |-> sp, meta |-> meta, nets |-> nets, nodes |-> nodes,
     splan |-> splan, motion |-> motion, origin |-> origin, metaparts |-> metaparts]

BaseDoc(nets, nodes, splan) ==
    Doc(TRUE, TRUE, TRUE, TRUE, nets, nodes, splan, <<>>, NoOrigin, {})

\* Documents with any subset of the four sections.
DocsSections ==
    {Doc(np, mp, sp, meta,
         IF np THEN BaseNets ELSE <<>>, IF np THEN BaseNodes ELSE <<>>,
         IF sp THEN BaseSplan ELSE <<>>, IF mp THEN BaseMotion ELSE <<>>,
         IF mp THEN org ELSE NoOrigin, IF meta THEN parts ELSE {}) :
       np \in BOOLEAN, mp \in BOOLEAN, sp \in BOOLEAN, meta \in BOOLEAN,
       org \in {NoOrigin, Origin(<<"4", "7", ".", "5">>, <<"1", "2">>, <<"2">>),
                Origin(<<"4", "7", ".", "5">>, <<"1", "2">>, <<>>)},
       parts \in SUBSET MetaParts}

\* The interfaces of one element are named by their position.
EthName(i) == CASE i = 1 -> "eth0" [] i = 2 -> "eth1" [] i = 3 -> "eth2" [] OTHER -> "eth3"
EName(i) == CASE i = 1 -> "e0" [] i = 2 -> "e1" [] i = 3 -> "e2" [] OTHER -> "e3"

NetIfcsOnto(targets, max) ==
    UNION {{[i \in 1..k |-> NetIfc(EName(i), t[i])] : t \in [1..k -> targets]} : k \in 0..max}

Other(nm) == IF nm = "sw1" THEN "sw2" ELSE "sw1"

\* Two networks that reference each other, or a network that does not exist,
\* with link-tuning models keyed to links.
LinkNetElems ==
    UNION {{NetElem(nm, "lanswitch", ifcs, models) :
              ifcs \in NetIfcsOnto({Other(nm), Ghost}, MaxIfcs),
              models \in {<<>>} \cup {<<Model(T_netem, p, "e0", Kv50)>> : p \in NetNames}} :
             nm \in NetNames}

DocsLinks ==
    {BaseDoc(nets, BaseNodes, <<>>) :
       nets \in {s \in SeqUpTo(LinkNetElems, 2) : Len(s) > 0 /\ Injective([i \in 1..Len(s) |-> s[i].name])}}

\* Three networks, two of which may link onto the third through an interface
\* of the same name.
SharedIfcs(nm, choice) == IF nm = "sw2" \/ ~choice THEN <<>> ELSE <<NetIfc("e0", "sw2")>>

DocsShared ==
    {BaseDoc(<<NetElem(order[1], "lanswitch", SharedIfcs(order[1], c1),
                       <<Model(T_netem, "sw2", "e0", Kv50)>>),
               NetElem(order[2], "lanswitch", SharedIfcs(order[2], c2), <<>>),
               NetElem(order[3], "lanswitch", SharedIfcs(order[3], c1 /\ c2), <<>>)>>,
             BaseNodes, <<>>) :
       order \in {<<"sw1", "sw2", "sw3">>, <<"sw3", "sw1", "sw2">>, <<"sw2", "sw3", "sw1">>,
                  <<"sw1", "sw3", "sw2">>},
       c1 \in BOOLEAN, c2 \in BOOLEAN}

\* Elements that are skipped: unknown network types, unknown link targets,
\* interfaces onto unknown networks.
SkipNetElems ==
    {NetElem(nm, ty, ifcs, models) :
       nm \in NetNames, ty \in {"lanswitch", "bogus"},
       ifcs \in SeqUpTo({NetIfc("e0", t) : t \in NetNames \cup {Ghost}}, 1),
       models \in {<<>>, <<Model(T_emane, "", "", Kv7), Model(T_netem, "n1", "eth0", Kv50)>>}}

SkipNodes ==
    {<<NodeElem("n1", "router", <<Ifc("eth0", "sw1", <<>>)>>)>>,
     <<NodeElem("n1", "rj45",
                <<Ifc("eth0", Ghost, <<Model(T_basic, "", "", Kv7)>>), Ifc("eth1", "sw1", <<>>)>>)>>,
     <<NodeElem("n1", "router", <<Ifc("eth0", Ghost, <<>>)>>),
       NodeElem("n2", "router", <<Ifc("eth0", "sw1", <<>>)>>)>>,
     <<NodeElem("n1", "router",
                <<Ifc("eth0", Ghost, <<Model(T_netem, "n1", "eth1", Kv7)>>),
                  Ifc("eth1", "sw1", <<>>)>>),
       NodeElem("n2", "router", <<Ifc("eth0", "sw1", <<>>)>>)>>}

DocsSkips ==
    {BaseDoc(nets, nodes, <<>>) :
       nets \in {s \in SeqUpTo(SkipNetElems, 2) :
                   Len(s) = 2 /\ s[1].name # s[2].name
                   /\ (s[1].models = <<>> \/ s[2].models = <<>>)},
       nodes \in SkipNodes}

\* A network of unknown type that holds interfaces and model blocks, beside a
\* network that links onto it, onto a name that is no entity, and onto a third
\* network.
SkippedNet ==
    NetElem("sw1", "bogus", <<NetIfc("e0", "sw2")>>,
            <<Model(T_emane, "", "", Kv7), Model(T_netem, "sw3", "e2", Kv50)>>)

LinkingNet(targets) ==
    NetElem("sw2", "lanswitch", [i \in 1..Len(targets) |-> NetIfc(EName(i), targets[i])],
            <<Model(T_netem, "sw1", "e0", Kv50), Model(T_netem, Ghost, "e1", Kv7)>>)

DocsSkipped ==
    {BaseDoc(nets, BaseNodes, <<>>) :
       nets \in UNION {{<<SkippedNet, LinkingNet(t), NetElem("sw3", "lanswitch", <<>>, <<>>)>>,
                        <<NetElem("sw3", "lanswitch", <<>>, <<>>), LinkingNet(t), SkippedNet>>,
                        <<LinkingNet(t), SkippedNet, NetElem("sw3", "lanswitch", <<>>, <<>>)>>} :
                         t \in {<<"sw1", Ghost, "sw3">>, <<"sw3", "sw1", Ghost>>,
                                <<Ghost, "sw3", "sw1">>}}}

\* An id attribute that is no integer, on the second NetworkDefinition or on
\* the second Node.
BadId == <<"x">>

DocsBadId ==
    {BaseDoc(<<NetElem("sw1", "lanswitch", <<>>, <<>>),
               [NetElem("sw2", "lanswitch", <<>>, <<>>) EXCEPT !.id = netid]>>,
             <<NodeElem("n1", "router", <<Ifc("eth0", "sw1", <<>>)>>),
               [NodeElem("n2", "router", <<>>) EXCEPT !.id = nodeid]>>, <<>>) :
       netid \in {BadId, IdText("sw2")}, nodeid \in {BadId, IdText("n2")}}

\* Texts of <point> elements: two, three and four integers; one integer; a
\* part that is no integer.
P_3_4 == <<"3", ",", "4">>
P_3_4_5 == <<"3", ",", "4", ",", "5">>
P_m1_20_7 == <<"-", "1", ",", "2", "0", ",", "7">>
P_1_2_3_4 == <<"1", ",", "2", ",", "3", ",", "4">>
P_3 == <<"3">>
P_a_4 == <<"a", ",", "4">>

MotionPool ==
    {Motion("stationary", p) :
       p \in {NoPoint, EmptyPoint, Point(P_3_4), Point(P_3_4_5), Point(P_m1_20_7),
              Point(P_1_2_3_4), Point(P_3), Point(P_a_4)}}
    \cup {Motion("waypoint", Point(P_3_4))}

\* A MotionPlan with one Node, named or not, and MotionPlans with two Nodes.
DocsMotion ==
    {Doc(TRUE, TRUE, TRUE, TRUE, BaseNets, BaseNodes, <<>>, motion, NoOrigin, {}) :
       motion \in {<<MotionNode(nm, ms)>> :
                      nm \in {"", "n1"}, ms \in SeqUpTo(MotionPool, MaxMotions)}
                  \cup {<<MotionNode(a, <<Motion("stationary", Point(P_3_4))>>),
                          MotionNode(b, <<Motion("stationary", Point(P_3_4_5))>>)>> :
                         a \in {"", "n1", "sw1"}, b \in {"", "n1", "sw1"}}}

\* Documents with every section: linked networks, nodes with interfaces,
\* default and custom services, session metadata; in both orders of the
\* networks and of the nodes.
FullNets ==
    {<<NetElem(order[1], "lanswitch", <<NetIfc("e0", order[2])>>,
               <<Model(T_netem, order[1], "e0", Kv50)>>),
       NetElem(order[2], "lanswitch", <<NetIfc("e0", order[1])>>, <<>>)>> :
       order \in {<<"sw1", "sw2">>, <<"sw2", "sw1">>}}

FullNodes ==
    {<<NodeElem(order[1], "router", <<Ifc("eth0", "sw1", <<Model(T_basic, "", "", Kv7)>>)>>),
       NodeElem(order[2], "router", <<Ifc("eth0", "sw2", <<>>)>>)>> :
       order \in {<<"n1", "n2">>, <<"n2", "n1">>}}

DocsFull ==
    {Doc(TRUE, TRUE, TRUE, TRUE, nets, nodes, BaseSplan, BaseMotion, NoOrigin, MetaParts) :
       nets \in FullNets, nodes \in FullNodes}

\* Model blocks of every name, on a network and on a node interface.
ModelPool ==
    {Model(nm, "n1", "eth0", kvs) :
       nm \in ModelNames, kvs \in {Kv50, <<<<"delay", StrVal(<<"a", "b", "c">>)>>>>}}

DocsModels ==
    {BaseDoc(<<NetElem("sw1", "lanswitch", <<>>, nm)>>,
             <<NodeElem("n1", "router", <<Ifc("eth0", "sw1", im)>>)>>, <<>>) :
       nm \in SeqUpTo(ModelPool, 1), im \in SeqUpTo(ModelPool, 1)}

\* Link-tuning models on a network, keyed to a node interface, with every
\* (key, value) list of the pool; optionally followed or preceded by a second
\* model under the same key.
RichNetem ==
    {Model(T_netem, "n1", "eth0", kvs) :
       kvs \in {s \in SeqUpTo(KVPool, MaxKvs) : Len(s) > 0}}

DocsNetem ==
    {BaseDoc(<<NetElem("sw1", "lanswitch", <<>>, ms)>>, BaseNodes, <<>>) :
       ms \in UNION {{<<m>>, <<m, Model(T_netem, "n1", "eth0", Kv7)>>,
                      <<Model(T_netem, "n1", "eth0", Kv7), m>>} : m \in RichNetem}}

\* Link-tuning models declared on the network or inside node interfaces, the
\* nodes in either document order.
OrderModels == {<<>>} \cup {<<Model(T_netem, p, "eth0", Kv7)>> : p \in NodeNames}

OrderIfcs ==
    UNION {{[i \in 1..k |-> Ifc(EthName(i), "sw1", ms[i])] : ms \in [1..k -> OrderModels]} :
             k \in 0..MaxIfcs}

DocsOrder ==
    {BaseDoc(<<NetElem("sw1", "lanswitch", <<>>, nm)>>,
             <<NodeElem(order[1], "router", i1), NodeElem(order[2], "router", i2)>>, <<>>) :
       nm \in {<<>>, <<Model(T_netem, "n1", "eth0", Kv50)>>},
       order \in {<<"n1", "n2">>, <<"n2", "n1">>},
       i1 \in OrderIfcs, i2 \in {s \in OrderIfcs : Len(s) <= 1}}

\* Service plans: per-type defaults and per-node customizations.
SvcPool == {Svc("zebra", "True"), Svc("OSPFv2", ""), Svc("nosuch", "True")}

SvcEntriesOf(lists) ==
    {SvcEntry(nm, ty, s) :
       nm \in {"n1", "n2"}, ty \in {""}, s \in lists}
    \cup {SvcEntry("", "router", s) : s \in lists}
    \cup {SvcEntry(Ghost, "", <<Svc("zebra", "True")>>)}

SvcPlans ==
    LET first  == SvcEntriesOf(SeqUpTo(SvcPool, MaxSvcs))
        second == SvcEntriesOf(SeqUpTo(SvcPool, 1))
    IN  {<<>>} \cup {<<a>> : a \in first} \cup {<<a, b>> : a \in first, b \in second}

DocsSvc ==
    {BaseDoc(BaseNets,
             <<NodeElem(order[1], "router", <<Ifc("eth0", "sw1", <<>>)>>),
               NodeElem(order[2], "router", <<>>)>>, sp) :
       order \in {<<"n1", "n2">>, <<"n2", "n1">>}, sp \in SvcPlans}

Docs == DocsSections \cup DocsLinks \cup DocsShared \cup DocsSkips \cup DocsModels \cup DocsNetem
        \cup DocsOrder \cup DocsSvc \cup DocsSkipped \cup DocsBadId \cup DocsMotion
        \cup DocsFull

(***************************************************************************)
(* Collaborators, at the interface the parser uses.                        *)
(***************************************************************************)
Ev(op, a, b, c) == [op |-> op, a |-> a, b |-> b, c |-> c]

\* A dict: a function whose domain is the set of keys written so far.
EmptyDict == [k \in {} |-> 0]

Put(d, k, v) == [x \in DOMAIN d \cup {k} |-> IF x = k THEN v ELSE d[x]]

\* xmlutils.xml_type_to_node_class: a class for the network types it knows.
KnownNetTypes == {"lanswitch", "hub", "wlan"}

XmlTypeToNodeClass(type) == IF type \in KnownNetTypes THEN type ELSE "None"

\* session.get_object_by_name: the first object of that name; KeyError if none.
GetObjectByName(objs, name) ==
    LET hits == {i \in 1..Len(objs) : objs[i].name = name}
    IN  IF hits = {} THEN [found |-> FALSE, n |-> 0]
        ELSE [found |-> TRUE, n |-> CHOOSE i \in hits : \A j \in hits : i <= j]

\* session.get_object: the object of that id.
GetObject(objs, objid) == CHOOSE i \in 1..Len(objs) : objs[i].objid = objid

\* ServiceManager.get: the service of that name, None if there is none.
KnownServices == {"zebra", "OSPFv2"}

ServiceManagerGet(name) == name \in KnownServices

\* A link between two networks, made by net.linknet(othernet); its two
\* parameter sets, and whether swapparams('_params_up') has exchanged them.
NewLink(net, othernet) ==
    [net |-> net, othernet |-> othernet, swapped |-> FALSE, params |-> <<>>,
     params_up |-> <<>>]

\* n.getlinknetif(n2): the link n made toward n2 with linknet, 0 for None.
GetLinkNetif(ls, n, n2) ==
    LET hits == {i \in 1..Len(ls) : ls[i].net = n /\ ls[i].othernet = n2}
    IN  IF hits = {} THEN 0 ELSE CHOOSE i \in hits : \A j \in hits : i <= j

SwapParams(ls, li) ==
    [ls EXCEPT ![li] = [@ EXCEPT !.swapped = ~@, !.params = ls[li].params_up,
                                 !.params_up = ls[li].params]]

\* netif.setparam(k, v) for each pair, in order.
RECURSIVE SetParams(_, _)
SetParams(params, kvs) ==
    IF kvs = <<>> THEN params ELSE SetParams(Append(params, Head(kvs)), Tail(kvs))

SetParamEvents(target, kvs) ==
    [i \in 1..Len(kvs) |-> Ev("setparam", target, kvs[i][1], kvs[i][2])]

(***************************************************************************)
(* getmotiondict                                                           *)
(***************************************************************************)
RECURSIVE SplitComma(_)
SplitComma(s) ==
    LET commas == {i \in 1..Len(s) : s[i] = ","}
    IN  IF commas = {} THEN <<s>>
        ELSE LET p == CHOOSE i \in commas : \A j \in commas : i <= j
             IN  <<SubSeq(s, 1, p - 1)>> \o SplitComma(SubSeq(s, p + 1, Len(s)))

\* The unpacking of getmotiondict without its third coordinate.
CoordWithoutZ(xyz) ==
    IF (\E i \in 1..Len(xyz) : ~xyz[i].ok) \/ Len(xyz) < 2
    THEN [ok |-> FALSE, x |-> 0, y |-> 0, z |-> 0, hasz |-> FALSE]
    ELSE [ok |-> TRUE, x |-> xyz[1].v.m, y |-> xyz[2].v.m, z |-> 0, hasz |-> FALSE]

\* The (x, y, z) of a point's text; ValueError when a part is no integer or
\* there is only one part.
CoordOf(xyz) ==
    IF (\E i \in 1..Len(xyz) : ~xyz[i].ok) \/ Len(xyz) < 2
    THEN [ok |-> FALSE, x |-> 0, y |-> 0, z |-> 0, hasz |-> FALSE]
    ELSE [ok |-> TRUE, x |-> xyz[1].v.m, y |-> xyz[2].v.m,
          z |-> IF Len(xyz) = 3 THEN xyz[3].v.m ELSE 0, hasz |-> Len(xyz) = 3]

MapInt(parts) == [i \in 1..Len(parts) |-> PyInt(parts[i])]

PointCoord(txt) == CoordOf(MapInt(SplitComma(txt)))

\* The motion elements that contribute, in document order, with their node.
Stationary(node) ==
    SelectSeq(node.motions, LAMBDA m : m.type = "stationary" /\ m.point.kind = "text")

ItemsOf(name, ms) == [i \in 1..Len(ms) |-> [name |-> name, txt |-> ms[i].point.txt]]

RECURSIVE MotionItems(_)
MotionItems(motion) ==
    IF motion = <<>> THEN <<>>
    ELSE (IF Head(motion).name = "" THEN <<>>
          ELSE ItemsOf(Head(motion).name, Stationary(Head(motion))))
         \o MotionItems(Tail(motion))

RECURSIVE MotionFold(_, _)
StoreCoord(items, acc, c) ==
    IF ~c.ok THEN [ok |-> FALSE, coords |-> acc]
    ELSE MotionFold(Tail(items), Put(acc, Head(items).name, c))

MotionFold(items, acc) ==
    IF items = <<>> THEN [ok |-> TRUE, coords |-> acc]
    ELSE StoreCoord(items, acc, PointCoord(Head(items).txt))

GetMotionDict(d) ==
    IF ~d.mp THEN [ok |-> TRUE, coords |-> EmptyDict]
    ELSE MotionFold(MotionItems(d.motion), EmptyDict)

(***************************************************************************)
(* Configuration router: parsemodel, parsenetem, numericvalue              *)
(***************************************************************************)
Converted(key, r) == [ok |-> r.ok, kv |-> <<key, r.v>>]

\* numericvalue without its float branch: int() of every text.
NumericValueIntOnly(kv) == Converted(kv[1], PyInt(kv[2].s))

NumericValue(kv) ==
    Converted(kv[1], IF HasDot(kv[2].s) THEN PyFloat(kv[2].s) ELSE PyInt(kv[2].s))

\* The end of parsenetem: conv holds numericvalue of each pair; when one of
\* them raised, kvs is still the list of texts.
StoreLinkParams(key, kvs, conv, failed, lp, tr, warning) ==
    [linkparams |-> Put(lp, key, IF failed THEN kvs ELSE [i \in 1..Len(kvs) |-> conv[i].kv]),
     trace |-> (IF failed THEN Append(tr, warning) ELSE tr)
               \o <<Ev("linkparams", key,
                       IF failed THEN kvs ELSE [i \in 1..Len(kvs) |-> conv[i].kv], 0)>>]

MapNumericValue(kvs) == [i \in 1..Len(kvs) |-> NumericValue(kvs[i])]

ParseNetem(model, kvs, lp, tr) ==
    StoreLinkParams(<<model.peer, model.netif>>, kvs, MapNumericValue(kvs),
                    \E i \in 1..Len(kvs) : ~NumericValue(kvs[i]).ok, lp, tr,
                    Ev("warn", "link parameters", model.netif, model.peer))

Prefix(s, n) == SubSeq(s, 1, IF Len(s) < n THEN Len(s) ELSE n)

\* parsemodel without its netem branch: link tuning goes to the mobility
\* manager like any other name.
ManagerWithoutNetem(name) ==
    IF Prefix(name, 5) = <<"e", "m", "a", "n", "e">> THEN "emane"
    ELSE IF Prefix(name, 3) = <<"x", "e", "n">> THEN "xen"
    ELSE "mobility"

\* The manager parsemodel picks for a model name; "None" for link tuning.
Manager(name) ==
    IF Prefix(name, 5) = <<"e", "m", "a", "n", "e">> THEN "emane"
    ELSE IF Prefix(name, 5) = <<"n", "e", "t", "e", "m">> THEN "None"
    ELSE IF Prefix(name, 3) = <<"x", "e", "n">> THEN "xen"
    ELSE "mobility"

Route(model, nodenum, mgr, lp, tr) ==
    IF mgr = "None" THEN ParseNetem(model, model.kvs, lp, tr)
    ELSE [linkparams |-> lp,
          trace |-> Append(tr, Ev("setconfig", mgr, <<nodenum, model.name>>, model.kvs))]

\* Each call of parsemodel is recorded at its entry, with the model element.
ParseModel(model, nodenum, lp, tr) ==
    IF model.name = <<>>
    THEN [linkparams |-> lp,
          trace |-> Append(tr, Ev("parsemodel", nodenum, model.name, model))]
    ELSE Route(model, nodenum, Manager(model.name), lp,
               Append(tr, Ev("parsemodel", nodenum, model.name, model)))

RECURSIVE ParseModels(_, _, _, _)
ParseModelsRest(models, nodenum, r) ==
    ParseModels(Tail(models), nodenum, r.linkparams, r.trace)

ParseModels(models, nodenum, lp, tr) ==
    IF models = <<>> THEN [linkparams |-> lp, trace |-> tr]
    ELSE ParseModelsRest(models, nodenum, ParseModel(Head(models), nodenum, lp, tr))

SetPosition(cs, name, objid) ==
    IF name \in DOMAIN cs THEN <<Ev("setposition", objid, cs[name], 0)>> ELSE <<>>

(***************************************************************************)
(* The constructor and its passes.                                         *)
(***************************************************************************)
Init ==
    /\ doc \in Docs
    /\ pc = "start"
    /\ idx = 1
    /\ err = "none"
    /\ coords = EmptyDict
    /\ linkparams = EmptyDict
    /\ linkednets = <<>>
    /\ objects = <<>>
    /\ links = <<>>
    /\ netifs = <<>>
    /\ defaultservices = EmptyDict
    /\ svclists = <<>>
    /\ assoc = <<>>
    /\ trace = <<>>

\* An exception that leaves the constructor.
Raise(e) == pc' = "raised" /\ err' = e

Proceed(to) == pc' = to /\ err' = err

\* __init__ up to the first pass: the sections, the coordinate table, the
\* empty link-parameter table.
SetCoords(r) ==
    IF r.ok THEN Proceed("defaults") /\ coords' = r.coords
    ELSE Raise("ValueError") /\ UNCHANGED coords

Start ==
    /\ pc = "start"
    /\ IF ~doc.np THEN Raise("ValueError") /\ UNCHANGED coords
       ELSE SetCoords(GetMotionDict(doc))
    /\ UNCHANGED <<doc, idx, linkparams, linkednets, objects, links, netifs,
                   defaultservices, svclists, assoc, trace>>

ServiceNames(node) == [i \in 1..Len(node.services) |-> node.services[i].name]

RECURSIVE DefaultServices(_, _)
DefaultServices(splan, acc) ==
    IF splan = <<>> THEN acc
    ELSE DefaultServices(Tail(splan),
                         IF Head(splan).type = "" THEN acc
                         ELSE Put(acc, Head(splan).type, ServiceNames(Head(splan))))

ParseDefaultServices ==
    /\ pc = "defaults"
    /\ IF ~doc.sp
       THEN Raise("AttributeError") /\ UNCHANGED defaultservices
       ELSE /\ Proceed("origin")
            /\ defaultservices' = DefaultServices(doc.splan, defaultservices)
    /\ UNCHANGED <<doc, idx, coords, linkparams, linkednets, objects, links, netifs,
                   svclists, assoc, trace>>

\* float(text), for any numeral.
IntAsFloat(r) == [ok |-> r.ok, v |-> FloatVal(r.v.m, 0)]

ToFloat(s) == IF HasDot(s) THEN PyFloat(s) ELSE IntAsFloat(PyInt(s))

SetRefGeo(geo) ==
    IF \E i \in 1..3 : ~geo[i].ok
    THEN Raise("ValueError") /\ UNCHANGED trace
    ELSE /\ Proceed("nets")
         /\ trace' = Append(trace, Ev("setrefgeo", geo[1].v, geo[2].v, geo[3].v))

ParseOrigin ==
    /\ pc = "origin"
    /\ IF ~(doc.mp /\ doc.origin.present)
       THEN Proceed("nets") /\ UNCHANGED trace
       ELSE SetRefGeo(<<ToFloat(doc.origin.lat), ToFloat(doc.origin.lon),
                        ToFloat(doc.origin.alt)>>)
    /\ idx' = 1
    /\ UNCHANGED <<doc, coords, linkparams, linkednets, objects, links, netifs,
                   defaultservices, svclists, assoc>>

\* getcommonattributes: int(id); name and type are taken as they are.
NodeId(e) == PyInt(e.id)

\* The pending references of a network: one per interface child.
PendingRefs(n, ifcs) ==
    [i \in 1..Len(ifcs) |-> [n |-> n, netid |-> ifcs[i].net, ifcname |-> ifcs[i].name]]

\* The network entity, its pending references, its model blocks.
AddNet(net, objid, name, cls, r) ==
    /\ objects' = Append(objects, [objid |-> objid, name |-> name, cls |-> cls,
                                   type |-> "None"])
    /\ linkednets' = linkednets \o PendingRefs(Len(objects) + 1, net.ifcs)
    /\ linkparams' = r.linkparams
    /\ trace' = r.trace
    /\ idx' = idx + 1
    /\ UNCHANGED <<pc, err>>

\* parsenets routing the model blocks of a network before it tests its type.
ParseNetElemModelsFirst(net, id, name, type) ==
    IF ~id.ok
    THEN Raise("ValueError") /\ UNCHANGED <<idx, objects, linkednets, linkparams, trace>>
    ELSE IF XmlTypeToNodeClass(type) = "None"
    THEN /\ trace' = Append(ParseModels(net.models, id.v.m, linkparams, trace).trace,
                            Ev("warn", "unknown network type", name, type))
         /\ linkparams' = ParseModels(net.models, id.v.m, linkparams, trace).linkparams
         /\ idx' = idx + 1
         /\ UNCHANGED <<pc, err, objects, linkednets>>
    ELSE AddNet(net, id.v.m, name, XmlTypeToNodeClass(type),
                ParseModels(net.models, id.v.m, linkparams,
                            Append(trace, Ev("add_object", id.v.m, name,
                                             XmlTypeToNodeClass(type)))
                            \o SetPosition(coords, name, id.v.m)))

ParseNetElem(net, id, name, type) ==
    IF ~id.ok
    THEN Raise("ValueError") /\ UNCHANGED <<idx, objects, linkednets, linkparams, trace>>
    ELSE IF XmlTypeToNodeClass(type) = "None"
    THEN /\ trace' = Append(trace, Ev("warn", "unknown network type", name, type))
         /\ idx' = idx + 1
         /\ UNCHANGED <<pc, err, objects, linkednets, linkparams>>
    ELSE AddNet(net, id.v.m, name, XmlTypeToNodeClass(type),
                ParseModels(net.models, id.v.m, linkparams,
                            Append(trace, Ev("add_object", id.v.m, name,
                                             XmlTypeToNodeClass(type)))
                            \o SetPosition(coords, name, id.v.m)))

\* parsenets, first loop: one NetworkDefinition.
ParseNet ==
    /\ pc = "nets" /\ idx <= Len(doc.nets)
    /\ ParseNetElem(doc.nets[idx], NodeId(doc.nets[idx]), doc.nets[idx].name,
                    doc.nets[idx].type)
    /\ UNCHANGED <<doc, coords, links, netifs, defaultservices, svclists, assoc>>

\* parsenets without the getlinknetif lookup: every pending reference makes a
\* link of its own.
LinkNetifAlwaysNew(ls, n, n2, tr, found) ==
    [links |-> Append(ls, NewLink(n2, n)), li |-> Len(ls) + 1, upstream |-> FALSE,
     trace |-> Append(tr, Ev("linknet", n2, n, Len(ls) + 1))]

\* The link a pending reference of n onto n2 works on: the one getlinknetif
\* finds, its parameter sets swapped, or a new one made by n2.linknet(n).
LinkNetifOf(ls, n, n2, tr, found) ==
    IF found = 0
    THEN [links |-> Append(ls, NewLink(n2, n)), li |-> Len(ls) + 1, upstream |-> FALSE,
          trace |-> Append(tr, Ev("linknet", n2, n, Len(ls) + 1))]
    ELSE [links |-> SwapParams(ls, found), li |-> found, upstream |-> TRUE,
          trace |-> Append(tr, Ev("swapparams", found, "_params_up", 0))]

LinkNetif(ls, n, n2, tr) == LinkNetifOf(ls, n, n2, tr, GetLinkNetif(ls, n, n2))

\* The pairs stored under key, applied to a link or an interface.
LinkParamsOf(lp, key) == IF key \in DOMAIN lp THEN lp[key] ELSE <<>>

\* A read of the table that finds key, recorded with the object it is for.
ApplyEvents(lp, key, target) ==
    IF key \in DOMAIN lp THEN <<Ev("apply", key, target, lp[key])>> ELSE <<>>

\* The end of a pending reference without the second swapparams.
ApplyToLinkNoRestore(ls, li, upstream, tr, kvs) ==
    /\ links' = [ls EXCEPT ![li].params = SetParams(@, kvs)]
    /\ trace' = tr \o SetParamEvents(<<"link", li>>, kvs)

\* setparam for each pair, then the second swapparams of a reused link.
ApplyToLink(ls, li, upstream, tr, kvs) ==
    IF upstream
    THEN /\ links' = SwapParams([ls EXCEPT ![li].params = SetParams(@, kvs)], li)
         /\ trace' = Append(tr \o SetParamEvents(<<"link", li>>, kvs),
                            Ev("swapparams", li, "_params_up", 0))
    ELSE /\ links' = [ls EXCEPT ![li].params = SetParams(@, kvs)]
         /\ trace' = tr \o SetParamEvents(<<"link", li>>, kvs)

LinkOne(l, key) ==
    ApplyToLink(l.links, l.li, l.upstream,
                l.trace \o ApplyEvents(linkparams, key, <<"link", l.li>>),
                LinkParamsOf(linkparams, key))

LinkRef(ref, r) ==
    IF ~r.found
    THEN /\ trace' = Append(trace, Ev("warn", "unknown net", objects[ref.n].name, ref.netid))
         /\ UNCHANGED links
    ELSE LinkOne(LinkNetif(links, ref.n, r.n, trace), <<objects[r.n].name, ref.ifcname>>)

\* parsenets, second loop: one pending reference.
LinkNet ==
    /\ pc = "links" /\ idx <= Len(linkednets)
    /\ LinkRef(linkednets[idx], GetObjectByName(objects, linkednets[idx].netid))
    /\ idx' = idx + 1
    /\ UNCHANGED <<doc, pc, err, coords, linkparams, linkednets, objects, netifs,
                   defaultservices, svclists, assoc>>

\* The end of parseinterface: the interface, with the pairs stored under
\* (node name, interface name) applied to it.
ApplyToNetif(node, ifname, net, nifs, lp, tr, kvs) ==
    [linkparams |-> lp,
     netifs |-> Append(nifs, [node |-> node, name |-> ifname, net |-> net,
                              params |-> SetParams(<<>>, kvs)]),
     trace |-> tr \o SetParamEvents(<<"netif", Len(nifs) + 1>>, kvs)]

NewNetif(objs, n, ifc, net, nifs, m) ==
    ApplyToNetif(n, ifc.name, net, nifs, m.linkparams,
                 m.trace \o ApplyEvents(m.linkparams, <<objs[n].name, ifc.name>>,
                                        <<"netif", Len(nifs) + 1>>),
                 LinkParamsOf(m.linkparams, <<objs[n].name, ifc.name>>))

\* parseinterface routing the model blocks before it looks the net up.
ParseInterfaceModelsFirst(objs, n, ifc, r, lp, nifs, tr) ==
    IF ~r.found
    THEN [linkparams |-> ParseModels(ifc.models, objs[n].objid, lp, tr).linkparams,
          netifs |-> nifs,
          trace |-> Append(ParseModels(ifc.models, objs[n].objid, lp, tr).trace,
                           Ev("warn", "unknown net", <<objs[n].name, ifc.name>>, ifc.net))]
    ELSE NewNetif(objs, n, ifc, r.n, nifs,
                  ParseModels(ifc.models, objs[n].objid, lp,
                              Append(tr, Ev("newnetif", objs[n].objid, ifc.name,
                                            objs[r.n].objid))))

ParseInterfaceOn(objs, n, ifc, r, lp, nifs, tr) ==
    IF ~r.found
    THEN [linkparams |-> lp, netifs |-> nifs,
          trace |-> Append(tr, Ev("warn", "unknown net", <<objs[n].name, ifc.name>>, ifc.net))]
    ELSE NewNetif(objs, n, ifc, r.n, nifs,
                  ParseModels(ifc.models, objs[n].objid, lp,
                              Append(tr, Ev("newnetif", objs[n].objid, ifc.name,
                                            objs[r.n].objid))))

\* parseinterface, for interface ifc of the node at position n of objects.
ParseInterface(objs, n, ifc, lp, nifs, tr) ==
    ParseInterfaceOn(objs, n, ifc, GetObjectByName(objs, ifc.net), lp, nifs, tr)

RECURSIVE ParseInterfaces(_, _, _, _, _, _)
ParseInterfacesRest(objs, n, ifcs, r) ==
    ParseInterfaces(objs, n, Tail(ifcs), r.linkparams, r.netifs, r.trace)

ParseInterfaces(objs, n, ifcs, lp, nifs, tr) ==
    IF ifcs = <<>> THEN [linkparams |-> lp, netifs |-> nifs, trace |-> tr]
    ELSE ParseInterfacesRest(objs, n, ifcs, ParseInterface(objs, n, Head(ifcs), lp, nifs, tr))

AddNode(objs, r) ==
    /\ objects' = objs
    /\ netifs' = r.netifs
    /\ linkparams' = r.linkparams
    /\ trace' = r.trace
    /\ idx' = idx + 1
    /\ UNCHANGED <<pc, err>>

NodeObjects(objid, name, cls, type) ==
    Append(objects, [objid |-> objid, name |-> name, cls |-> cls, type |-> type])

NodeClass(type) == IF type = "rj45" THEN "rj45" ELSE "nodecls"

ParseNodeElem(node, id, name, type) ==
    IF ~id.ok
    THEN Raise("ValueError") /\ UNCHANGED <<idx, objects, netifs, linkparams, trace>>
    ELSE AddNode(NodeObjects(id.v.m, name, NodeClass(type), type),
                 ParseInterfaces(NodeObjects(id.v.m, name, NodeClass(type), type),
                                 Len(objects) + 1, node.ifcs, linkparams, netifs,
                                 Append(trace, Ev("add_object", id.v.m, name, NodeClass(type)))
                                 \o SetPosition(coords, name, id.v.m)))

\* parsenodes: one Node element, with its interfaces.
ParseNode ==
    /\ pc = "nodes" /\ idx <= Len(doc.nodes)
    /\ ParseNodeElem(doc.nodes[idx], NodeId(doc.nodes[idx]), doc.nodes[idx].name,
                     doc.nodes[idx].type)
    /\ UNCHANGED <<doc, coords, linkednets, links, defaultservices, svclists, assoc>>

\* A services_str: absent (None), or the service names with "|" between them.
NoneStr == [none |-> TRUE, s |-> <<>>]
Str(tokens) == [none |-> FALSE, s |-> tokens]

\* svclists, a dict keyed by object id, as the list of its items in the order
\* the keys were first written.
HasKey(sv, objid) == \E i \in 1..Len(sv) : sv[i].objid = objid

KeyPos(sv, objid) == CHOOSE i \in 1..Len(sv) : sv[i].objid = objid

\* parseservice returning False for a known service without a custom marker.
ParseServiceCustomOnly(service, objid, tr) ==
    IF ~ServiceManagerGet(service.name) \/ service.custom = ""
    THEN [applied |-> FALSE, trace |-> tr]
    ELSE [applied |-> TRUE,
          trace |-> Append(tr, Ev("setcustomservice", objid, service.name, 0))]

\* parseservice: FALSE for a service the registry does not know; otherwise the
\* customization is stored when the custom attribute is truthy.
ParseService(service, objid, tr) ==
    IF ~ServiceManagerGet(service.name) THEN [applied |-> FALSE, trace |-> tr]
    ELSE [applied |-> TRUE,
          trace |-> IF service.custom = "" THEN tr
                    ELSE Append(tr, Ev("setcustomservice", objid, service.name, 0))]

\* svclists[objid] += "|" + svcname, or svclists[objid] = svcname.
AddService(sv, objid, svcname) ==
    IF HasKey(sv, objid)
    THEN [sv EXCEPT ![KeyPos(sv, objid)].str = Str(@.s \o <<"|", svcname>>)]
    ELSE Append(sv, [objid |-> objid, str |-> Str(<<svcname>>)])

RECURSIVE ParseServiceList(_, _, _, _)
ParseServiceListRest(services, objid, sv, r) ==
    ParseServiceList(Tail(services), objid,
                     IF r.applied THEN AddService(sv, objid, Head(services).name) ELSE sv,
                     r.trace)

ParseServiceList(services, objid, sv, tr) ==
    IF services = <<>> THEN [svclists |-> sv, trace |-> tr]
    ELSE ParseServiceListRest(services, objid, sv, ParseService(Head(services), objid, tr))

SetServices(p) ==
    /\ svclists' = p.svclists
    /\ trace' = p.trace
    /\ idx' = idx + 1
    /\ UNCHANGED <<pc, err>>

ParseServiceNode(node, r) ==
    IF node.name = ""
    THEN idx' = idx + 1 /\ UNCHANGED <<pc, err, svclists, trace>>
    ELSE IF ~r.found
    THEN Raise("KeyError") /\ UNCHANGED <<idx, svclists, trace>>
    ELSE SetServices(ParseServiceList(node.services, objects[r.n].objid, svclists, trace))

\* parseservices, first loop: one Node entry of the ServicePlan.
ParseServiceEntry ==
    /\ pc = "services" /\ idx <= Len(doc.splan)
    /\ ParseServiceNode(doc.splan[idx], GetObjectByName(objects, doc.splan[idx].name))
    /\ UNCHANGED <<doc, coords, linkparams, linkednets, objects, links, netifs,
                   defaultservices, assoc>>

\* The second loop of parseservices: the nodes without custom services.
UseDefault(sv, id) ==
    IF HasKey(sv, id) THEN sv ELSE Append(sv, [objid |-> id, str |-> NoneStr])

RECURSIVE UseDefaults(_, _)
UseDefaults(nodes, sv) ==
    IF nodes = <<>> THEN sv
    ELSE UseDefaults(Tail(nodes), UseDefault(sv, NodeId(Head(nodes)).v.m))

\* sorted(svclists.keys())
Least(S) == CHOOSE x \in S : \A y \in S : x <= y

RECURSIVE SortAsc(_)
SortAsc(S) == IF S = {} THEN <<>> ELSE <<Least(S)>> \o SortAsc(S \ {Least(S)})

\* svclists.keys() without sorted(): the ids in the order they were written.
KeysUnsorted(sv) == [i \in 1..Len(sv) |-> sv[i].objid]

SortedKeys(sv) == SortAsc({sv[i].objid : i \in 1..Len(sv)})

Reconcile ==
    /\ pc = "reconcile"
    /\ svclists' = UseDefaults(doc.nodes, svclists)
    /\ assoc' = SortedKeys(UseDefaults(doc.nodes, svclists))
    /\ pc' = "associate"
    /\ idx' = 1
    /\ UNCHANGED <<doc, err, coords, linkparams, linkednets, objects, links, netifs,
                   defaultservices, trace>>

\* The third loop of parseservices: one object id.
Associate ==
    /\ pc = "associate" /\ idx <= Len(assoc)
    /\ trace' = Append(trace, Ev("addservicestonode", assoc[idx],
                                 objects[GetObject(objects, assoc[idx])].type,
                                 svclists[KeyPos(svclists, assoc[idx])].str))
    /\ idx' = idx + 1
    /\ UNCHANGED <<doc, pc, err, coords, linkparams, linkednets, objects, links, netifs,
                   defaultservices, svclists, assoc>>

MetaEvents(d, part, op) ==
    IF d.meta /\ part \in d.metaparts THEN <<Ev(op, part, 0, 0)>> ELSE <<>>

ParseMeta ==
    /\ pc = "meta"
    /\ trace' = trace \o MetaEvents(doc, "SessionOptions", "setoption")
                      \o MetaEvents(doc, "Hooks", "set_hook")
                      \o MetaEvents(doc, "MetaData", "add_item")
    /\ pc' = "done"
    /\ UNCHANGED <<doc, idx, err, coords, linkparams, linkednets, objects, links, netifs,
                   defaultservices, svclists, assoc>>

\* __init__ calling parsenodes before the second loop of parsenets.
AfterLoopNodesFirst ==
    CASE pc = "nets" -> "nodes"
      [] pc = "nodes" -> "links"
      [] pc = "links" -> "services"
      [] pc = "services" -> "reconcile"
      [] pc = "associate" -> "meta"
      [] OTHER -> pc

\* A loop that has run out of elements hands over to what follows it.
LoopLen == CASE pc = "nets" -> Len(doc.nets)
             [] pc = "links" -> Len(linkednets)
             [] pc = "nodes" -> Len(doc.nodes)
             [] pc = "services" -> Len(doc.splan)
             [] pc = "associate" -> Len(assoc)
             [] OTHER -> 0

AfterLoop == CASE pc = "nets" -> "links"
               [] pc = "links" -> "nodes"
               [] pc = "nodes" -> "services"
               [] pc = "services" -> "reconcile"
               [] pc = "associate" -> "meta"
               [] OTHER -> pc

EndLoop ==
    /\ pc \in {"nets", "links", "nodes", "services", "associate"}
    /\ idx > LoopLen
    /\ pc' = AfterLoop
    /\ idx' = 1
    /\ UNCHANGED <<doc, err, coords, linkparams, linkednets, objects, links, netifs,
                   defaultservices, svclists, assoc, trace>>

Next ==
    \/ Start
    \/ ParseDefaultServices
    \/ ParseOrigin
    \/ ParseNet
    \/ LinkNet
    \/ ParseNode
    \/ ParseServiceEntry
    \/ Reconcile
    \/ Associate
    \/ ParseMeta
    \/ EndLoop

Spec == Init /\ [][Next]_vars

(***************************************************************************)
(* Properties.                                                             *)
(***************************************************************************)
Positions == 1..Len(trace)

Max(S) == CHOOSE x \in S : \A y \in S : y <= x

\* The passes after parsenets.
AfterLinks == pc \in {"nodes", "services", "reconcile", "associate", "meta", "done"}

\* The key (node name, interface name) of a created interface.
NetifKey(i) == <<objects[netifs[i].node].name, netifs[i].name>>

\* The entries of parsemodel for link-tuning models keyed by key.
NetemMarks(key) ==
    {q \in Positions : /\ trace[q].op = "parsemodel"
                       /\ Prefix(trace[q].b, 5) = T_netem
                       /\ <<trace[q].c.peer, trace[q].c.netif>> = key}

\* The reads of the table that found an entry for interface i.
NetifApplies(i) ==
    {a \in Positions : trace[a].op = "apply" /\ trace[a].b = <<"netif", i>>}

\* The last link-tuning model parsed under the key of the read at a.
LastMark(a) == Max({q \in NetemMarks(trace[a].a) : q < a})

IsNumeral(s) == IF HasDot(s) THEN PyFloat(s).ok ELSE PyInt(s).ok

NonNumeric(kvs) == \E j \in 1..Len(kvs) : ~IsNumeral(kvs[j][2].s)

\* C1: when the link-tuning model in force for an interface, the last one
\* parsed under its key before the interface is created, holds a non-numeric
\* value, no setparam is made on the interface, which exists all the same, and
\* that model logged exactly one warning.
C1_MalformedDropsAll ==
    \A i \in 1..Len(netifs) : \A a \in NetifApplies(i) :
        NonNumeric(trace[LastMark(a)].c.kvs) =>
            /\ netifs[i].params = <<>>
            /\ trace[LastMark(a) + 1].op = "warn"
            /\ trace[LastMark(a) + 2].op # "warn"

\* C2: the parameters of a node interface do not depend on where the
\* link-tuning models of its key are declared: at the end of the build every
\* interface carries the pairs the table holds under its key, whether they were
\* stored before the interface was created or after.
C2_OrderIndependent ==
    pc = "done" =>
        \A i \in 1..Len(netifs) : netifs[i].params = LinkParamsOf(linkparams, NetifKey(i))

\* The position in doc.nets of the known network of that name, 0 if none.
NetPos(name) ==
    IF \E k \in 1..Len(doc.nets) : doc.nets[k].name = name /\ doc.nets[k].type \in KnownNetTypes
    THEN CHOOSE k \in 1..Len(doc.nets) : doc.nets[k].name = name
    ELSE 0

RefsOnto(k, name) == {i \in 1..Len(doc.nets[k].ifcs) : doc.nets[k].ifcs[i].net = name}

\* Two networks with one reference each way.
Mutual(a, b) ==
    /\ a # b
    /\ doc.nets[a].type \in KnownNetTypes /\ doc.nets[b].type \in KnownNetTypes
    /\ Cardinality(RefsOnto(a, doc.nets[b].name)) = 1
    /\ Cardinality(RefsOnto(b, doc.nets[a].name)) = 1

ObjOf(name) == GetObjectByName(objects, name).n

LinksBetween(x, y) == {li \in 1..Len(links) : {links[li].net, links[li].othernet} = {x, y}}

LinknetCalls(x, y) ==
    {q \in Positions : trace[q].op = "linknet" /\ {trace[q].a, trace[q].b} = {x, y}}

\* C3: two networks that reference each other once each way have exactly one
\* link after the link pass, made by exactly one linknet call, in whichever
\* order the two NetworkDefinition elements stand.
C3_OneLinkPerMutualPair ==
    AfterLinks =>
        \A a, b \in 1..Len(doc.nets) :
            Mutual(a, b) =>
                /\ Cardinality(LinksBetween(ObjOf(doc.nets[a].name), ObjOf(doc.nets[b].name))) = 1
                /\ Cardinality(LinknetCalls(ObjOf(doc.nets[a].name), ObjOf(doc.nets[b].name))) = 1

\* A finished build with a mutual pair whose link was reused, for either order
\* of the two elements.
C3_Witness ==
    /\ pc = "done"
    /\ \E a, b \in 1..Len(doc.nets) :
          /\ a < b /\ Mutual(a, b) /\ doc.nets[a].name = "sw2"
          /\ Cardinality(LinksBetween(ObjOf("sw1"), ObjOf("sw2"))) = 1
    /\ \E q \in Positions : trace[q].op = "swapparams"

\* Every id is an integer, every point of the MotionPlan and every attribute
\* of the origin a numeral: no conversion of the build can fail.
WellFormedDoc ==
    /\ GetMotionDict(doc).ok
    /\ \A k \in 1..Len(doc.nets) : NodeId(doc.nets[k]).ok
    /\ \A k \in 1..Len(doc.nodes) : NodeId(doc.nodes[k]).ok
    /\ (doc.mp /\ doc.origin.present) =>
          ToFloat(doc.origin.lat).ok /\ ToFloat(doc.origin.lon).ok /\ ToFloat(doc.origin.alt).ok

\* C4: a document with a NetworkPlan, well-formed in what it holds, never makes
\* the constructor raise, whichever optional sections it lacks.
C4_OnlyMissingNetworkPlanRaises == (pc = "raised" /\ WellFormedDoc) => ~doc.np

\* C5: a ServicePlan entry naming no entity does not abort the build.
C5_UnknownServiceNodeSkipped ==
    \A k \in 1..Len(doc.splan) :
        (doc.splan[k].name # "" /\ ~GetObjectByName(objects, doc.splan[k].name).found)
            => ~(pc = "raised" /\ err = "KeyError" /\ idx = k)

\* The services of the named ServicePlan entries of a node that the registry
\* knows, in the order they are met.
RECURSIVE KnownNamesFor(_, _)
KnownNamesFor(splan, name) ==
    IF splan = <<>> THEN <<>>
    ELSE (IF Head(splan).name = name
          THEN SelectSeq(ServiceNames(Head(splan)), LAMBDA n : n \in KnownServices)
          ELSE <<>>)
         \o KnownNamesFor(Tail(splan), name)

RECURSIVE JoinBar(_)
JoinBar(names) ==
    IF Len(names) <= 1 THEN names
    ELSE JoinBar(SubSeq(names, 1, Len(names) - 1)) \o <<"|", names[Len(names)]>>

AssocCalls == {q \in Positions : trace[q].op = "addservicestonode"}

AssocCallsFor(id) == {q \in AssocCalls : trace[q].a = id}

ServicesDone == pc \in {"meta", "done"}

\* C6: once parseservices has returned, every Node element of the NetworkPlan
\* got one addservicestonode call: with the known services of its named
\* ServicePlan entries joined by "|" in encounter order when there is one, and
\* with None otherwise.
C6_CustomOrDefault ==
    ServicesDone =>
        \A k \in 1..Len(doc.nodes) :
            /\ Cardinality(AssocCallsFor(NatOf(doc.nodes[k].id))) = 1
            /\ \A q \in AssocCallsFor(NatOf(doc.nodes[k].id)) :
                  trace[q].c = IF KnownNamesFor(doc.splan, doc.nodes[k].name) = <<>>
                               THEN NoneStr
                               ELSE Str(JoinBar(KnownNamesFor(doc.splan, doc.nodes[k].name)))

\* A finished build in which one node got two joined services, one of them
\* without a custom marker, from an entry that also names an unknown service,
\* and the other node got None.
C6_Witness ==
    /\ pc = "done"
    /\ \E q, r \in AssocCalls :
          /\ trace[q].c = Str(<<"zebra", "|", "OSPFv2">>)
          /\ trace[r].c = NoneStr
    /\ \E k \in 1..Len(doc.splan) :
          /\ doc.splan[k].name # ""
          /\ \E i \in 1..Len(doc.splan[k].services) : doc.splan[k].services[i].name = "nosuch"

\* The ids addservicestonode was called with, in call order.
AssocIds ==
    LET calls == SelectSeq(trace, LAMBDA e : e.op = "addservicestonode")
    IN  [i \in 1..Len(calls) |-> calls[i].a]

CustomizedIds ==
    {objects[ObjOf(doc.splan[k].name)].objid :
       k \in {j \in 1..Len(doc.splan) :
                /\ doc.splan[j].name # ""
                /\ \E i \in 1..Len(doc.splan[j].services) :
                      doc.splan[j].services[i].name \in KnownServices}}

NodeIds == {NatOf(doc.nodes[k].id) : k \in 1..Len(doc.nodes)}

\* C7: addservicestonode is called in strictly ascending order of object id,
\* hence once per id, and after the association loop the ids called are those
\* of the customized nodes and of the Node elements, whatever their order in
\* the document.
C7_AscendingAssociation ==
    /\ \A i, j \in 1..Len(AssocIds) : i < j => AssocIds[i] < AssocIds[j]
    /\ ServicesDone => Range(AssocIds) = CustomizedIds \cup NodeIds

\* A finished build whose nodes stand in descending id order in the document.
C7_Witness ==
    /\ pc = "done"
    /\ Len(doc.nodes) = 2
    /\ NatOf(doc.nodes[1].id) > NatOf(doc.nodes[2].id)
    /\ Len(AssocIds) = 2
    /\ CustomizedIds # {}

\* Two reads of the table under one key are for the same object.
C8_Reads == {a \in Positions : trace[a].op = "apply"}

\* C8: the pairs stored under one key are applied to at most one interface or
\* link.
C8_ConsumedOnce ==
    \A a, b \in C8_Reads : trace[a].a = trace[b].a => trace[a].b = trace[b].b

OpAt(q) == IF q <= Len(trace) THEN trace[q].op ELSE "end"

RouterOps == {"setconfig", "linkparams"}

ForwardedTo(q, mgr) ==
    /\ OpAt(q + 1) = "setconfig"
    /\ trace[q + 1].a = mgr
    /\ trace[q + 1].b = <<trace[q].a, trace[q].b>>
    /\ trace[q + 1].c = trace[q].c.kvs
    /\ OpAt(q + 2) \notin RouterOps

Diverted(q, w) ==
    /\ OpAt(q + 1 + w) = "linkparams"
    /\ trace[q + 1 + w].a = <<trace[q].c.peer, trace[q].c.netif>>
    /\ OpAt(q + 2 + w) \notin RouterOps

StartsWith(name, p) == Len(name) >= Len(p) /\ SubSeq(name, 1, Len(p)) = p

\* C9: what follows each entry of parsemodel is what the prefix of the model
\* name prescribes: nothing for the empty name; one setconfig on the emane
\* manager for "emane"; one write of the table under (peer, netif) and no
\* manager call for "netem"; one setconfig on the xen manager for "xen"; one
\* setconfig on the mobility manager for any other name.
C9_RoutedByPrefix ==
    \A q \in Positions :
        trace[q].op = "parsemodel" =>
            IF trace[q].b = <<>> THEN OpAt(q + 1) \notin RouterOps
            ELSE IF StartsWith(trace[q].b, <<"e", "m", "a", "n", "e">>) THEN ForwardedTo(q, "emane")
            ELSE IF StartsWith(trace[q].b, <<"n", "e", "t", "e", "m">>)
            THEN Diverted(q, IF OpAt(q + 1) = "warn" THEN 1 ELSE 0)
            ELSE IF StartsWith(trace[q].b, <<"x", "e", "n">>) THEN ForwardedTo(q, "xen")
            ELSE ForwardedTo(q, "mobility")

\* A finished build that forwarded a model to the xen manager and diverted a
\* link-tuning model declared on a node interface.
C9_Witness ==
    /\ pc = "done"
    /\ \E q \in Positions : trace[q].op = "setconfig" /\ trace[q].a = "xen"
    /\ \E q \in Positions :
          /\ trace[q].op = "parsemodel" /\ trace[q].a = 10
          /\ OpAt(q + 1) = "linkparams"

NetIdsCreated == {objects[k].objid : k \in {j \in 1..Len(objects) : objects[j].cls \in KnownNetTypes}}

\* The value a text stands for: float with a '.', int without.
TypedAs(v, text) ==
    /\ v.t = IF HasDot(text) THEN "float" ELSE "int"
    /\ v = IF HasDot(text) THEN PyFloat(text).v ELSE PyInt(text).v

Delivered(params, kvs) ==
    /\ Len(params) = Len(kvs)
    /\ \A j \in 1..Len(kvs) : params[j][1] = kvs[j][1] /\ TypedAs(params[j][2], kvs[j][2].s)

\* The entries of parsemodel for link-tuning models of NetworkDefinitions
\* whose values are all numerals.
NetworkNetemMarks ==
    {q \in Positions : /\ trace[q].op = "parsemodel"
                       /\ Prefix(trace[q].b, 5) = T_netem
                       /\ trace[q].a \in NetIdsCreated
                       /\ ~NonNumeric(trace[q].c.kvs)}

\* C10 as stated: every link-tuning model of a NetworkDefinition, with
\* numerals for values, is what the interface of its key carries: one
\* setparam per pair, in the model's order, int for a text without '.', float
\* for a text with one.
C10_EveryNetworkNetemDelivered ==
    \A q \in NetworkNetemMarks : \A i \in 1..Len(netifs) :
        NetifKey(i) = <<trace[q].c.peer, trace[q].c.netif>> =>
            Delivered(netifs[i].params, trace[q].c.kvs)

\* C10, amended: the same for the model in force when the interface is
\* created, the last one parsed under the key.
C10_InForceNetemDelivered ==
    \A i \in 1..Len(netifs) : \A a \in NetifApplies(i) :
        LastMark(a) \in NetworkNetemMarks =>
            Delivered(netifs[i].params, trace[LastMark(a)].c.kvs)

\* A finished build whose interface got delay=50 as an int and loss=1.2 as a
\* float from a model of the network.
C10_Witness ==
    /\ pc = "done"
    /\ \E i \in 1..Len(netifs) : \E a \in NetifApplies(i) :
          /\ LastMark(a) \in NetworkNetemMarks
          /\ netifs[i].params = <<<<"delay", IntVal(50)>>, <<"loss", FloatVal(12, 1)>>>>

\* The node pass has run to its end.
NodesDone ==
    \/ pc \in {"services", "reconcile", "associate", "meta", "done"}
    \/ pc = "raised" /\ err = "KeyError"

\* The net of an interface names a network entity of the session.
Resolves(net) ==
    \E j \in 1..Len(objects) : objects[j].name = net /\ objects[j].cls \in KnownNetTypes

\* The interfaces of a Node element whose net resolves, in document order.
ResolvingIfcs(k) == SelectSeq(doc.nodes[k].ifcs, LAMBDA i : Resolves(i.net))

\* The interfaces created on the entity of that name, in creation order.
NetifsOn(name) == SelectSeq(netifs, LAMBDA i : objects[i.node].name = name)

RECURSIVE ModelsOf(_)
ModelsOf(ifcs) == IF ifcs = <<>> THEN <<>> ELSE Head(ifcs).models \o ModelsOf(Tail(ifcs))

\* The model elements parsemodel was entered with for that object id.
ModelsRoutedFor(id) ==
    [q \in 1..Len(SelectSeq(trace, LAMBDA e : e.op = "parsemodel" /\ e.a = id)) |->
        SelectSeq(trace, LAMBDA e : e.op = "parsemodel" /\ e.a = id)[q].c]

\* C11: after the node pass every Node element has its entity; the interfaces
\* created on it are exactly those whose net resolves, in document order; the
\* model blocks routed for it are exactly those of these interfaces; and no
\* parameter is set on anything but a created interface.
C11_OnlyUnknownInterfaceSkipped ==
    NodesDone =>
        /\ \A k \in 1..Len(doc.nodes) :
              /\ \E j \in 1..Len(objects) :
                    /\ objects[j].name = doc.nodes[k].name
                    /\ objects[j].objid = NatOf(doc.nodes[k].id)
              /\ [i \in 1..Len(NetifsOn(doc.nodes[k].name)) |->
                     NetifsOn(doc.nodes[k].name)[i].name]
                 = [i \in 1..Len(ResolvingIfcs(k)) |-> ResolvingIfcs(k)[i].name]
              /\ ModelsRoutedFor(NatOf(doc.nodes[k].id)) = ModelsOf(ResolvingIfcs(k))
        /\ \A q \in Positions :
              (trace[q].op = "setparam" /\ trace[q].a[1] = "netif")
                  => trace[q].a[2] \in 1..Len(netifs)

\* A finished build in which a node's first interface, holding a model block,
\* named no entity, its second interface was created, and a later node got
\* its interface too.
C11_Witness ==
    /\ pc = "done"
    /\ Len(doc.nodes) = 2
    /\ Len(doc.nodes[1].ifcs) = 2
    /\ ~Resolves(doc.nodes[1].ifcs[1].net)
    /\ doc.nodes[1].ifcs[1].models # <<>>
    /\ Len(NetifsOn(doc.nodes[1].name)) = 1
    /\ Len(NetifsOn(doc.nodes[2].name)) = 1

\* The NetworkDefinition elements of a known type, in document order.
KnownNets == SelectSeq(doc.nets, LAMBDA e : e.type \in KnownNetTypes)

UnknownNets == SelectSeq(doc.nets, LAMBDA e : e.type \notin KnownNetTypes)

RECURSIVE RefsOf(_)
RefsOf(nets) ==
    IF nets = <<>> THEN <<>>
    ELSE [i \in 1..Len(Head(nets).ifcs) |->
             <<Head(nets).name, Head(nets).ifcs[i].net, Head(nets).ifcs[i].name>>]
         \o RefsOf(Tail(nets))

RECURSIVE NetModelsOf(_)
NetModelsOf(nets) ==
    IF nets = <<>> THEN <<>> ELSE Head(nets).models \o NetModelsOf(Tail(nets))

\* The network-link pass has run to its end.
LinksDone == AfterLinks \/ (pc = "raised" /\ err = "KeyError")

\* The pending references the link pass has worked on so far.
RefsSeen ==
    IF pc = "links" THEN SubSeq(linkednets, 1, idx - 1)
    ELSE IF LinksDone THEN linkednets ELSE <<>>

CountOps(op) == Cardinality({q \in Positions : trace[q].op = op})

\* The warnings of the link pass for a target that is no entity.
LinkWarnings ==
    {q \in Positions :
        /\ trace[q].op = "warn" /\ trace[q].a = "unknown net"
        /\ \A r \in 1..q : ~(trace[r].op = "add_object" /\ trace[r].c \notin KnownNetTypes)}

\* C12: once the network pass is over, a NetworkDefinition of unknown type has
\* no entity, none of its interfaces among the pending references and none of
\* its model blocks routed, while every sibling of a known type has all three;
\* and of the pending references worked on, one whose target is no entity made
\* a warning and nothing else, no link and no read of the table, while every
\* other one made or reused a link.
C12_SkippedNetworkLeavesNothing ==
    (pc = "links" \/ LinksDone) =>
        /\ \A k \in 1..Len(UnknownNets) :
              /\ \A j \in 1..Len(objects) : objects[j].name # UnknownNets[k].name
              /\ ModelsRoutedFor(NatOf(UnknownNets[k].id)) = <<>>
              /\ \A q \in Positions :
                    trace[q].op = "setconfig" => trace[q].b[1] # NatOf(UnknownNets[k].id)
        /\ [i \in 1..Len(linkednets) |->
               <<objects[linkednets[i].n].name, linkednets[i].netid, linkednets[i].ifcname>>]
           = RefsOf(KnownNets)
        /\ \A k \in 1..Len(KnownNets) :
              /\ \E j \in 1..Len(objects) : objects[j].name = KnownNets[k].name
              /\ ModelsRoutedFor(NatOf(KnownNets[k].id)) = KnownNets[k].models
        /\ Cardinality(LinkWarnings)
           = Cardinality({i \in 1..Len(RefsSeen) : ~Resolves(RefsSeen[i].netid)})
        /\ CountOps("linknet") * 2 + CountOps("swapparams")
           = 2 * Cardinality({i \in 1..Len(RefsSeen) : Resolves(RefsSeen[i].netid)})
        /\ Len(links) = CountOps("linknet")
        /\ \A q \in Positions :
              (trace[q].op = "apply" /\ trace[q].b[1] = "link") => Resolves(trace[q].a[1])

\* A finished build that skipped a network of unknown type holding interfaces
\* and model blocks, created its siblings, skipped the references onto it and
\* onto a name that is no entity although the table held entries under their
\* keys, and made a link for the reference that came after them.
C12_Witness ==
    /\ pc = "done"
    /\ Len(UnknownNets) = 1
    /\ UnknownNets[1].ifcs # <<>> /\ UnknownNets[1].models # <<>>
    /\ Len(doc.nets) = 3 /\ doc.nets[1] = UnknownNets[1]
    /\ Len(linkednets) = 3
    /\ ~Resolves(linkednets[1].netid) /\ ~Resolves(linkednets[2].netid)
    /\ <<linkednets[1].netid, linkednets[1].ifcname>> \in DOMAIN linkparams
    /\ <<linkednets[2].netid, linkednets[2].ifcname>> \in DOMAIN linkparams
    /\ Len(links) = 1

\* C13: when the constructor has raised, the session holds no network entity,
\* node entity, link or interface made by the build.
C13_RaiseLeavesNothing ==
    pc = "raised" => objects = <<>> /\ links = <<>> /\ netifs = <<>>

\* (x, y, z), z absent for None.
XYZ(x, y, z) == [ok |-> TRUE, x |-> x, y |-> y, z |-> z, hasz |-> TRUE]
XY(x, y) == [ok |-> TRUE, x |-> x, y |-> y, z |-> 0, hasz |-> FALSE]

WellFormedPoints == {P_3_4, P_3_4_5, P_m1_20_7, P_1_2_3_4}

\* What each text of two or more integers stands for.
CoordsFor(txt) ==
    CASE txt = P_3_4 -> XY(3, 4)
      [] txt = P_3_4_5 -> XYZ(3, 4, 5)
      [] txt = P_m1_20_7 -> XYZ(0 - 1, 20, 7)
      [] txt = P_1_2_3_4 -> XY(1, 2)

\* The entries of the MotionPlan that count: named node, stationary type, a
\* first point with text; as <<name, text>> in document order.
RECURSIVE EntriesOf(_, _)
EntriesOf(name, motions) ==
    IF motions = <<>> THEN <<>>
    ELSE (IF name # "" /\ Head(motions).type = "stationary" /\ Head(motions).point.kind = "text"
          THEN <<<<name, Head(motions).point.txt>>>>
          ELSE <<>>)
         \o EntriesOf(name, Tail(motions))

RECURSIVE MotionEntries(_)
MotionEntries(motion) ==
    IF motion = <<>> THEN <<>>
    ELSE EntriesOf(Head(motion).name, Head(motion).motions) \o MotionEntries(Tail(motion))

LastEntryOf(entries, name) ==
    entries[Max({i \in 1..Len(entries) : entries[i][1] = name})][2]

\* C14: for a document whose counting entries all hold two or more integers,
\* the coordinate table has exactly the names of these entries, each mapped to
\* the coordinates of its entry (of the last one, when several name it):
\* (x, y, None) for two integers, (x, y, z) for three; a MotionPlan that is
\* absent, or holds no counting entry, gives the empty table.
C14_MotionDict ==
    (/\ doc.np /\ pc # "start"
     /\ \A i \in 1..Len(MotionEntries(doc.motion)) :
           MotionEntries(doc.motion)[i][2] \in WellFormedPoints)
    =>
        /\ DOMAIN coords = {MotionEntries(doc.motion)[i][1] :
                              i \in 1..Len(MotionEntries(doc.motion))}
        /\ \A name \in DOMAIN coords :
              coords[name] = CoordsFor(LastEntryOf(MotionEntries(doc.motion), name))
        /\ ~doc.mp => coords = EmptyDict

\* A finished build whose MotionPlan gives a node a motion of another type
\* and then a stationary one with three integers, placed on its entity.
C14_Witness ==
    /\ pc = "done"
    /\ Len(doc.motion) = 1 /\ doc.motion[1].name = "n1"
    /\ Len(doc.motion[1].motions) = 2
    /\ doc.motion[1].motions[1].type = "waypoint"
    /\ doc.motion[1].motions[2] = Motion("stationary", Point(P_m1_20_7))
    /\ coords = [n \in {"n1"} |-> XYZ(0 - 1, 20, 7)]
    /\ \E q \in Positions : trace[q].op = "setposition" /\ trace[q].b = XYZ(0 - 1, 20, 7)

SwapPos == {q \in Positions : trace[q].op = "swapparams"}

\* The swapparams at q is the first of its pending reference.
FirstSwap(q) == q \in SwapPos /\ Cardinality({r \in SwapPos : r <= q}) % 2 = 1

\* The entries between positions q and r are the table read and the setparam
\* calls for link li, and nothing else.
OnlyParamsBetween(q, r, li) ==
    \A m \in (q + 1)..(r - 1) :
        \/ trace[m].op = "setparam" /\ trace[m].a = <<"link", li>>
        \/ trace[m].op = "apply" /\ trace[m].b = <<"link", li>>

\* The swapparams that closes the pair opened at q.
ClosedBy(q, r) ==
    /\ r \in SwapPos /\ r > q
    /\ trace[r].a = trace[q].a /\ trace[r].b = "_params_up"
    /\ OnlyParamsBetween(q, r, trace[q].a)

LinkSetParams ==
    {m \in Positions : trace[m].op = "setparam" /\ trace[m].a[1] = "link"}

\* C15: between pending references every link has its direction marker as it
\* was made; the swapparams calls come in pairs on one link with nothing but
\* the table read and the setparam calls of that link between them; and every
\* setparam on a link stands either inside such a pair or, the marker never
\* toggled, right after the linknet that made the link.
C15_MarkerRestored ==
    /\ \A li \in 1..Len(links) : ~links[li].swapped
    /\ Cardinality(SwapPos) % 2 = 0
    /\ \A q \in Positions : FirstSwap(q) => \E r \in Positions : ClosedBy(q, r)
    /\ \A m \in LinkSetParams :
          \/ \E q \in 1..(m - 1) :
                /\ FirstSwap(q) /\ trace[q].a = trace[m].a[2]
                /\ \E r \in (m + 1)..Len(trace) : ClosedBy(q, r)
          \/ \E q \in 1..(m - 1) :
                /\ trace[q].op = "linknet" /\ trace[q].c = trace[m].a[2]
                /\ OnlyParamsBetween(q, m, trace[m].a[2])

\* A finished build in which a reused link got parameters between its two
\* swapparams, so that they stand in its upstream set, and a new link got
\* parameters without any.
C15_Witness ==
    /\ pc = "done"
    /\ Cardinality(SwapPos) = 2
    /\ \E li \in 1..Len(links) :
          /\ links[li].params_up # <<>> /\ links[li].params # <<>>
          /\ ~links[li].swapped

\* The pass an entry of the trace belongs to: 1 network entities, 2 links
\* between networks, 3 node entities and interfaces, 4 service customization
\* and association, 5 session metadata; 0 for what several passes do.
PhaseOf(e) ==
    CASE e.op = "add_object" -> (IF e.c \in KnownNetTypes THEN 1 ELSE 3)
      [] e.op \in {"linknet", "swapparams"} -> 2
      [] e.op = "setparam" -> (IF e.a[1] = "link" THEN 2 ELSE 3)
      [] e.op = "apply" -> (IF e.b[1] = "link" THEN 2 ELSE 3)
      [] e.op = "newnetif" -> 3
      [] e.op \in {"setcustomservice", "addservicestonode"} -> 4
      [] e.op \in {"setoption", "set_hook", "add_item"} -> 5
      [] OTHER -> 0

Reached(phase) == \E q \in Positions : PhaseOf(trace[q]) = phase

\* The default service lists of the ServicePlan: for each type, the services
\* of the last entry that carries it.
TypedEntries == {k \in 1..Len(doc.splan) : doc.splan[k].type # ""}

DefaultsRecorded ==
    /\ DOMAIN defaultservices = {doc.splan[k].type : k \in TypedEntries}
    /\ \A k \in TypedEntries :
          (\A j \in TypedEntries : j > k => doc.splan[j].type # doc.splan[k].type)
              => defaultservices[doc.splan[k].type] = ServiceNames(doc.splan[k])

\* C16: the entries of the trace stand in the order of the passes; the default
\* service lists are complete once an entity exists; every network of a known
\* type has its entity once a link is worked on; every pending reference has
\* been worked on once a node exists; every node has its entity and its
\* interfaces once a service is customized or associated; and every
\* association has been made once session metadata is applied.
C16_PassOrder ==
    /\ \A q, r \in Positions :
          (q < r /\ PhaseOf(trace[q]) # 0 /\ PhaseOf(trace[r]) # 0)
              => PhaseOf(trace[q]) <= PhaseOf(trace[r])
    /\ objects # <<>> => DefaultsRecorded
    /\ Reached(2) =>
          \A k \in 1..Len(KnownNets) :
              \E j \in 1..Len(objects) : objects[j].name = KnownNets[k].name
    /\ Reached(3) =>
          /\ [i \in 1..Len(linkednets) |->
                 <<objects[linkednets[i].n].name, linkednets[i].netid, linkednets[i].ifcname>>]
             = RefsOf(KnownNets)
          /\ CountOps("linknet") * 2 + CountOps("swapparams")
             = 2 * Cardinality({i \in 1..Len(linkednets) : Resolves(linkednets[i].netid)})
    /\ Reached(4) =>
          \A k \in 1..Len(doc.nodes) :
              /\ \E j \in 1..Len(objects) : objects[j].name = doc.nodes[k].name
              /\ Len(NetifsOn(doc.nodes[k].name)) = Len(ResolvingIfcs(k))
    /\ Reached(5) => Range(AssocIds) = CustomizedIds \cup NodeIds

\* A finished build that went through all five passes, default services
\* recorded.
C16_Witness ==
    /\ pc = "done"
    /\ \A phase \in 1..5 : Reached(phase)
    /\ DOMAIN defaultservices # {}
    /\ \E q \in Positions : trace[q].op = "setcustomservice"
    /\ \E q \in Positions : trace[q].op = "swapparams"

\* The network entities, as positions in objects.
NetObjects == {j \in 1..Len(objects) : objects[j].cls \in KnownNetTypes}

\* The pending references of network x onto network y.
PendingOnto(x, y) ==
    {i \in 1..Len(linkednets) :
        linkednets[i].n = x /\ linkednets[i].netid = objects[y].name}

\* C17 as stated: between any two networks there is at most one link,
\* whatever the pending references between them.
C17_AtMostOneLinkPerPair ==
    \A x, y \in NetObjects : x # y => Cardinality(LinksBetween(x, y)) <= 1

\* C17, amended: between two networks of which neither declares more than one
\* interface onto the other there is at most one link.
C17_AtMostOneLinkPerSimplePair ==
    \A x, y \in NetObjects :
        (/\ x # y
         /\ Cardinality(PendingOnto(x, y)) <= 1
         /\ Cardinality(PendingOnto(y, x)) <= 1)
            => Cardinality(LinksBetween(x, y)) <= 1

\* A finished build in which one network declared one interface onto another
\* that declared none back, with the one link made for it.
C17_Witness ==
    /\ pc = "done"
    /\ \E x, y \in NetObjects :
          /\ x # y
          /\ Cardinality(PendingOnto(x, y)) = 1
          /\ PendingOnto(y, x) = {}
          /\ Cardinality(LinksBetween(x, y)) = 1

====
